---- MODULE Spec2Model ----
(***************************************************************************)
(* Model of the medical chatbot: the Flask HTTP surface with its           *)
(* process-wide session store (app.py), and the chatbot engine's response  *)
(* assembler, content normalizer and retrieval tool (chatbot_engine.py).   *)
(*                                                                         *)
(* Strings that the code trims, measures or joins are sequences of         *)
(* one-character strings; a fixed message of the code is a sequence        *)
(* holding the literal as its only element.                                *)
(***************************************************************************)
EXTENDS Integers, Sequences, FiniteSets, TLC

VARIABLES
    chatbot,        \* app.py: module global `chatbot` (TRUE: initialised, FALSE: None)
    conversations,  \* app.py: module global `conversations`, session id -> list object
    heap,           \* the list objects `conversations` and the handlers' locals refer to
    cookie,         \* each browser client's signed session cookie (its 'session_id')
    req,            \* the request each worker thread is serving, with the handler's locals
    overlapped,     \* history variable: sessions that had two overlapping chat/clear requests
    norm,           \* a call of MedicalChatbot._extract_text_content: argument and result
    asm,            \* a call of MedicalChatbot.get_response: its locals and the stream so far
    ret             \* a call of the retrieve_medical_context tool: its inputs and result

appVars == <<chatbot, conversations, heap, cookie, req, overlapped>>

engineVars == <<norm, asm, ret>>

vars == <<chatbot, conversations, heap, cookie, req, overlapped, norm, asm, ret>>

-----------------------------------------------------------------------------
(* Bounds of the model *)

\* No chat request is accepted once the lists hold (or are about to hold) this many turns.
MaxTurns == 4

\* Worker threads of the threaded server, browser clients, and the uuid4 values drawn.
Slots == {"t1", "t2"}
Clients == {"c1", "c2"}
SessionIds == {"s1", "s2"}

NoSid == "none"
NoObj == 0
Objs == 1..(Cardinality(SessionIds) + Cardinality(Slots))

-----------------------------------------------------------------------------
(* Strings *)

IsSpace(c) == c \in {" ", "\n", "\t"}

RECURSIVE LStrip(_)
LStrip(s) ==
    IF s = <<>> THEN s
    ELSE IF IsSpace(Head(s)) THEN LStrip(Tail(s)) ELSE s

RECURSIVE RStrip(_)
RStrip(s) ==
    IF s = <<>> THEN s
    ELSE IF IsSpace(s[Len(s)]) THEN RStrip(SubSeq(s, 1, Len(s) - 1)) ELSE s

\* str.strip()
Strip(s) == RStrip(LStrip(s))

Rep(n) == [i \in 1..n |-> "a"]

-----------------------------------------------------------------------------
(* Python values of the engine: None, a str, a list, a dict, any other object *)

PyNone == [k |-> "none"]
PyStr(s) == [k |-> "str", v |-> s]
PyList(items) == [k |-> "list", v |-> items]
PyDict(d) == [k |-> "dict", v |-> d]
PyOther == [k |-> "other"]

\* d.get(key, default)
Get(d, key, default) == IF key \in DOMAIN d THEN d[key] ELSE default

\* bool(value) of None or a str
Truthy(value) == value.k = "str" /\ value.v # <<>>

\* The engine components at rest, for the specifications that do not run them.
NormIdle == [pc |-> "idle", content |-> PyNone, result |-> PyNone, depth |-> 0]
AsmIdle ==
    [pc |-> "idle", user_message |-> PyNone, stream |-> <<>>, final_response |-> PyNone,
     event_count |-> 0, captured |-> 0, ended |-> "no", result |-> PyNone]
RetIdle ==
    [pc |-> "idle", vectorstore |-> FALSE,
     search |-> [raises |-> FALSE, message |-> "", docs |-> <<>>],
     result |-> [content |-> "", artifact |-> <<>>]]
EngineIdle == norm = NormIdle /\ asm = AsmIdle /\ ret = RetIdle

-----------------------------------------------------------------------------
(* app.py: the HTTP surface and the session store *)

\* app.py:64  len(user_message) > 1000
MaxMessageLen == 1000

\* A request body: no JSON object at all, or a JSON object with its 'message'.
NoBody == [json |-> FALSE, message |-> <<>>]
Body(m) == [json |-> TRUE, message |-> m]

\* The bodies the concurrent specification posts, and those the one-worker one posts.
ShortMessages == {<<>>, <<" ">>, <<" ", "a", " ">>}
LongMessages ==
    {<<"b">>, Rep(MaxMessageLen), <<" ">> \o Rep(MaxMessageLen), Rep(MaxMessageLen + 1),
     Rep(MaxMessageLen + 1) \o <<" ">>}
Bodies == {NoBody} \cup {Body(m) : m \in ShortMessages}
AllBodies == Bodies \cup {Body(m) : m \in LongMessages}

\* What chatbot.get_response returns to chat(): an answer or one of its fixed messages.
Responses == {<<"o", "k">>}
AllResponses == Responses \cup {<<"I apologize, but I couldn't generate a response.">>}

ValidateOffByOne(user_message) ==
    IF user_message = <<>> THEN "Message cannot be empty"
    ELSE IF Len(user_message) >= MaxMessageLen
    THEN "Message is too long. Please keep it under 1000 characters."
    ELSE ""

\* chat(): app.py:58-67, the checks on the trimmed message
Validate(user_message) ==
    IF user_message = <<>> THEN "Message cannot be empty"
    ELSE IF Len(user_message) > MaxMessageLen
    THEN "Message is too long. Please keep it under 1000 characters."
    ELSE ""

IdleReq ==
    [pc |-> "idle", kind |-> "none", client |-> "none", setCookie |-> NoSid,
     msg |-> <<>>, sid |-> NoSid, lst |-> NoObj, resp |-> <<>>,
     status |-> 0, error |-> "", payload |-> <<>>]

\* A turn of the history; its timestamp, read from the clock, is left out.
Turn(role, message) == [role |-> role, message |-> message]

\* app.py:79-83
UserTurn(user_message) == Turn("user", user_message)

\* app.py:89-93
BotTurn(bot_response) == Turn("assistant", bot_response)

\* The turn list of session s as a reader of conversations[s] sees it.
Present(s) == conversations[s] # NoObj
History(s) == IF Present(s) THEN heap[conversations[s]] ELSE <<>>

\* List objects some name still refers to; the others are garbage.
Referenced(conv, rq) ==
    {conv[s] : s \in SessionIds} \cup {rq[r].lst : r \in Slots}

Collect(h, conv, rq) ==
    [o \in Objs |-> IF o \in Referenced(conv, rq) THEN h[o] ELSE <<>>]

SharedList == CHOOSE o \in Objs : TRUE

\* `[]`: a new list object
NewList == CHOOSE o \in Objs : o \notin Referenced(conversations, req)

\* uuid.uuid4(): an id no cookie, request or store entry holds
UsedSids ==
    {s \in SessionIds : Present(s)}
        \cup {cookie[c] : c \in Clients}
        \cup {req[r].sid : r \in Slots}
        \cup {req[r].setCookie : r \in Slots}
FreshSids == SessionIds \ UsedSids
Uuid4 == CHOOSE s \in SessionIds : FreshSids # {} => s \in FreshSids
UuidLeft(c) == cookie[c] # NoSid \/ FreshSids # {}

TotalTurns ==
    LET RECURSIVE Sum(_)
        Sum(S) == IF S = {} THEN 0
                  ELSE LET o == CHOOSE x \in S : TRUE
                       IN Len(heap[o]) + Sum(S \ {o})
    IN Sum(Objs)

InFlightChats == Cardinality({r \in Slots : req[r].kind = "chat" /\ req[r].pc # "done"})

\* A chat or clear request that is bound to session s and has not finished its handler.
Mutating(r, s) ==
    /\ req[r].sid = s
    /\ req[r].pc # "done"
    /\ req[r].kind \in {"chat", "clear"}

Overlap(r, s) ==
    IF s # NoSid /\ \E q \in Slots \ {r} : Mutating(q, s)
    THEN overlapped \cup {s} ELSE overlapped

AppInit ==
    /\ chatbot \in BOOLEAN
    /\ conversations = [s \in SessionIds |-> NoObj]
    /\ heap = [o \in Objs |-> <<>>]
    \* a cookie outlives the server process: a client may hold an id the store lost
    /\ cookie \in {f \in [Clients -> SessionIds \cup {NoSid}] :
                     \A c, d \in Clients : c # d /\ f[c] # NoSid => f[c] # f[d]}
    /\ req = [r \in Slots |-> IdleReq]
    /\ overlapped = {}

\* The response a handler returns; it waits in the worker until it is delivered.
Reply(r, c, kind, sid, status, error, payload) ==
    [IdleReq EXCEPT !.pc = "done", !.kind = kind, !.client = c, !.sid = sid,
                    !.status = status, !.error = error, !.payload = payload]

\* index(): app.py:34-43, for the request of a client holding cookie[c]
Index(r, c) ==
    /\ req[r].pc = "idle"
    /\ UuidLeft(c)
    /\ IF cookie[c] = NoSid
       THEN LET s == Uuid4
                o == NewList
            IN /\ conversations' = [conversations EXCEPT ![s] = o]
               /\ heap' = [heap EXCEPT ![o] = <<>>]
               /\ req' = [req EXCEPT ![r] =
                            [Reply(r, c, "index", s, 200, "", <<>>) EXCEPT !.setCookie = s]]
       ELSE /\ req' = [req EXCEPT ![r] = Reply(r, c, "index", cookie[c], 200, "", <<>>)]
            /\ UNCHANGED <<conversations, heap>>
    /\ UNCHANGED <<chatbot, cookie, overlapped>>
    /\ UNCHANGED engineVars

\* chat(): app.py:49-71, the handler up to its first access to the store
Chat(r, c, body) ==
    /\ req[r].pc = "idle"
    /\ TotalTurns + 2 * InFlightChats + 2 <= MaxTurns
    /\ UuidLeft(c)
    /\ LET user_message == Strip(body.message)
           session_id == IF cookie[c] # NoSid THEN cookie[c] ELSE Uuid4
       IN IF ~chatbot
          THEN /\ req' = [req EXCEPT ![r] = Reply(r, c, "chat", NoSid, 503,
                     "Chatbot service is currently unavailable. Please try again later.", <<>>)]
               /\ UNCHANGED overlapped
          ELSE IF ~body.json
          THEN \* data is None: data.get raises, caught at app.py:100
               /\ req' = [req EXCEPT ![r] = Reply(r, c, "chat", NoSid, 500,
                     "An error occurred while processing your request. Please try again.", <<>>)]
               /\ UNCHANGED overlapped
          ELSE IF Validate(user_message) # ""
          THEN /\ req' = [req EXCEPT ![r] =
                            Reply(r, c, "chat", NoSid, 400, Validate(user_message), <<>>)]
               /\ UNCHANGED overlapped
          ELSE /\ req' = [req EXCEPT ![r] =
                            [IdleReq EXCEPT !.pc = "check", !.kind = "chat", !.client = c,
                                            !.msg = user_message, !.sid = session_id,
                                            !.setCookie = session_id]]
               /\ overlapped' = Overlap(r, session_id)
    /\ UNCHANGED <<chatbot, conversations, heap, cookie>>
    /\ UNCHANGED engineVars

\* chat(): app.py:73  `if session_id not in conversations`
ChatCheck(r) ==
    /\ req[r].pc = "check"
    /\ req' = [req EXCEPT ![r].pc = IF Present(req[r].sid) THEN "load_user" ELSE "create"]
    /\ UNCHANGED <<chatbot, conversations, heap, cookie, overlapped>>
    /\ UNCHANGED engineVars

\* chat(): app.py:74  `conversations[session_id] = []`
ChatCreate(r) ==
    /\ req[r].pc = "create"
    /\ LET o == NewList
           conv == [conversations EXCEPT ![req[r].sid] = o]
       IN /\ conversations' = conv
          /\ heap' = Collect([heap EXCEPT ![o] = <<>>], conv, req)
    /\ req' = [req EXCEPT ![r].pc = "load_user"]
    /\ UNCHANGED <<chatbot, cookie, overlapped>>
    /\ UNCHANGED engineVars

\* chat(): app.py:79 and 89  `conversations[session_id]` is looked up before the turn is built
ChatLoad(r, at, next) ==
    /\ req[r].pc = at
    /\ req' = [req EXCEPT ![r] = [@ EXCEPT !.pc = next, !.lst = conversations[req[r].sid]]]
    /\ UNCHANGED <<chatbot, conversations, heap, cookie, overlapped>>
    /\ UNCHANGED engineVars

\* list.append(turn) on the list object looked up before
ListAppend(r, turn, rq) ==
    heap' = Collect([heap EXCEPT ![req[r].lst] = Append(@, turn)], conversations, rq)

ChatLoadUser(r) == ChatLoad(r, "load_user", "append_user")

\* chat(): app.py:79-83
ChatAppendUser(r) ==
    /\ req[r].pc = "append_user"
    /\ LET rq == [req EXCEPT ![r] = [@ EXCEPT !.pc = "respond", !.lst = NoObj]]
       IN /\ ListAppend(r, UserTurn(req[r].msg), rq)
          /\ req' = rq
    /\ UNCHANGED <<chatbot, conversations, cookie, overlapped>>
    /\ UNCHANGED engineVars

\* chat(): app.py:86  bot_response = chatbot.get_response(user_message)
ChatRespond(r, bot_response) ==
    /\ req[r].pc = "respond"
    /\ req' = [req EXCEPT ![r] = [@ EXCEPT !.pc = "load_bot", !.msg = <<>>,
                                          !.resp = bot_response]]
    /\ UNCHANGED <<chatbot, conversations, heap, cookie, overlapped>>
    /\ UNCHANGED engineVars

ChatLoadBot(r) == ChatLoad(r, "load_bot", "append_bot")

\* chat(): app.py:89-98
ChatAppendBot(r) ==
    /\ req[r].pc = "append_bot"
    /\ LET rq == [req EXCEPT ![r] =
                    [Reply(r, req[r].client, "chat", req[r].sid, 200, "", req[r].resp)
                     EXCEPT !.setCookie = req[r].setCookie]]
       IN /\ ListAppend(r, BotTurn(req[r].resp), rq)
          /\ req' = rq
    /\ UNCHANGED <<chatbot, conversations, cookie, overlapped>>
    /\ UNCHANGED engineVars

\* app.py:112 and 125  `session_id and session_id in conversations`
Registered(session_id) == session_id # NoSid /\ Present(session_id)

\* get_history(): app.py:107-117
GetHistory(r, c) ==
    /\ req[r].pc = "idle"
    /\ LET session_id == cookie[c]
       IN req' = [req EXCEPT ![r] =
                    Reply(r, c, "history", session_id, 200, "",
                          IF ~Registered(session_id)
                          THEN <<>> ELSE heap[conversations[session_id]])]
    /\ UNCHANGED <<chatbot, conversations, heap, cookie, overlapped>>
    /\ UNCHANGED engineVars

ClearedStoreUnassigned(session_id, o) == conversations

\* app.py:126  `conversations[session_id] = []`
ClearedStore(session_id, o) == [conversations EXCEPT ![session_id] = o]

\* clear_history(): app.py:120-132
ClearHistory(r, c) ==
    /\ req[r].pc = "idle"
    /\ LET session_id == cookie[c]
           rq == [req EXCEPT ![r] = Reply(r, c, "clear", session_id, 200, "", <<>>)]
       IN /\ req' = rq
          /\ overlapped' = Overlap(r, session_id)
          /\ IF Registered(session_id)
             THEN LET o == NewList
                      conv == ClearedStore(session_id, o)
                  IN /\ conversations' = conv
                     /\ heap' = Collect([heap EXCEPT ![o] = <<>>], conv, rq)
             ELSE UNCHANGED <<conversations, heap>>
    /\ UNCHANGED <<chatbot, cookie>>
    /\ UNCHANGED engineVars

\* The response reaches the client, with the session cookie if the handler set it.
Deliver(r) ==
    /\ req[r].pc = "done"
    /\ cookie' = IF req[r].setCookie # NoSid
                 THEN [cookie EXCEPT ![req[r].client] = req[r].setCookie]
                 ELSE cookie
    /\ req' = [req EXCEPT ![r] = IdleReq]
    /\ UNCHANGED <<chatbot, conversations, heap, overlapped>>
    /\ UNCHANGED engineVars

\* The web application at rest, for the specifications of the engine alone.
AppQuiet ==
    /\ chatbot = TRUE
    /\ conversations = [s \in SessionIds |-> NoObj]
    /\ heap = [o \in Objs |-> <<>>]
    /\ cookie = [c \in Clients |-> NoSid]
    /\ req = [r \in Slots |-> IdleReq]
    /\ overlapped = {}

Init == AppInit /\ EngineIdle

Next ==
    \/ \E r \in Slots, c \in Clients : Index(r, c)
    \/ \E r \in Slots, c \in Clients, b \in Bodies : Chat(r, c, b)
    \/ \E r \in Slots : ChatCheck(r)
    \/ \E r \in Slots : ChatCreate(r)
    \/ \E r \in Slots : ChatLoadUser(r)
    \/ \E r \in Slots : ChatAppendUser(r)
    \/ \E r \in Slots, b \in Responses : ChatRespond(r, b)
    \/ \E r \in Slots : ChatLoadBot(r)
    \/ \E r \in Slots : ChatAppendBot(r)
    \/ \E r \in Slots, c \in Clients : GetHistory(r, c)
    \/ \E r \in Slots, c \in Clients : ClearHistory(r, c)
    \/ \E r \in Slots : Deliver(r)

Spec == Init /\ [][Next]_vars

\* One worker thread serving one request at a time, with every body and response.
Worker == "t1"

NextSerial ==
    \/ \E c \in Clients : Index(Worker, c)
    \/ \E c \in Clients, b \in AllBodies : Chat(Worker, c, b)
    \/ ChatCheck(Worker)
    \/ ChatCreate(Worker)
    \/ ChatLoadUser(Worker)
    \/ ChatAppendUser(Worker)
    \/ \E b \in AllResponses : ChatRespond(Worker, b)
    \/ ChatLoadBot(Worker)
    \/ ChatAppendBot(Worker)
    \/ \E c \in Clients : GetHistory(Worker, c)
    \/ \E c \in Clients : ClearHistory(Worker, c)
    \/ Deliver(Worker)

SpecSerial == Init /\ [][NextSerial]_vars

-----------------------------------------------------------------------------
(* Session store and HTTP surface: properties *)

C6_Isolation ==
    [][\A s \in SessionIds :
          (Present(s)' # Present(s) \/ History(s)' # History(s)) =>
              \E r \in Slots : req'[r] # req[r] /\ s \in {req[r].sid, req'[r].sid}
      ]_vars

\* C6 witness: two chat requests of different sessions in flight, both lists non-empty.
C6_Witness ==
    \E r, q \in Slots :
        /\ req[r].kind = "chat" /\ req[q].kind = "chat"
        /\ req[r].pc = "load_bot" /\ req[q].pc = "load_bot"
        /\ req[r].sid # req[q].sid
        /\ History(req[r].sid) # <<>> /\ History(req[q].sid) # <<>>

\* The text of m between its first and its last non-whitespace character.
C7_Trimmed(m) ==
    IF \A i \in 1..Len(m) : IsSpace(m[i]) THEN <<>>
    ELSE LET first == CHOOSE i \in 1..Len(m) :
                         ~IsSpace(m[i]) /\ \A j \in 1..(i - 1) : IsSpace(m[j])
             last == CHOOSE i \in 1..Len(m) :
                         ~IsSpace(m[i]) /\ \A j \in (i + 1)..Len(m) : IsSpace(m[j])
         IN SubSeq(m, first, last)

C7_Rejected(error) ==
    /\ req'[Worker].pc = "done"
    /\ req'[Worker].status = 400
    /\ req'[Worker].error = error
    /\ req'[Worker].setCookie = NoSid
    /\ conversations' = conversations
    /\ heap' = heap

C7_Outcome(m) ==
    /\ m = <<>> => C7_Rejected("Message cannot be empty")
    /\ Len(m) > 1000 =>
           C7_Rejected("Message is too long. Please keep it under 1000 characters.")
    /\ (m # <<>> /\ Len(m) <= 1000) =>
           /\ req'[Worker].pc = "check"
           /\ req'[Worker].msg = m

\* C7 as stated: the checks are made on the message as posted.
C7_Original ==
    [][\A c \in Clients, b \in AllBodies :
          (chatbot /\ b.json /\ Chat(Worker, c, b)) => C7_Outcome(b.message)
      ]_vars

\* C7, amended: with the chatbot available, a chat request whose message, once its
\* leading and trailing whitespace is trimmed, is empty or longer than 1000
\* characters is answered 400 with the matching error, the handler returns before
\* it calls the agent, and the store and the cookie are left as they were; every
\* message whose trimmed text is non-empty and at most 1000 characters passes.
C7_ValidationOnTrimmed ==
    [][\A c \in Clients, b \in AllBodies :
          (chatbot /\ b.json /\ Chat(Worker, c, b)) => C7_Outcome(C7_Trimmed(b.message))
      ]_vars

\* C7 witness: a too-long message has been rejected.
C7_Witness ==
    /\ req[Worker].kind = "chat" /\ req[Worker].pc = "done"
    /\ req[Worker].status = 400
    /\ req[Worker].error = "Message is too long. Please keep it under 1000 characters."

C10_Alternates(h) ==
    \A i \in 1..Len(h) : h[i].role = IF i % 2 = 1 THEN "user" ELSE "assistant"

\* C10 as stated: every session's list alternates user/assistant, from a user
\* turn, whatever the interleaving of the requests.
C10_Original == \A s \in SessionIds : C10_Alternates(History(s))

\* C10, the sequential case: the list of a session alternates user/assistant,
\* from a user turn, as long as no chat or clear request of that session has run
\* while another chat request of the same session was being served.
C10_AlternationUnlessOverlapped ==
    \A s \in SessionIds : s \notin overlapped => C10_Alternates(History(s))

\* C10, the sequential case reached: a session whose requests never overlapped is on its second
\* exchange, the user turn appended and the answer still to come.
C10_Witness ==
    \E s \in SessionIds \ overlapped :
        /\ Len(History(s)) = 3
        /\ \E r \in Slots : req[r].kind = "chat" /\ req[r].pc = "respond" /\ req[r].sid = s

\* h is g with zero or more turns appended.
C11_Extends(h, g) == Len(g) <= Len(h) /\ SubSeq(h, 1, Len(g)) = g

\* C11 as stated: a step that is not a clear of the session keeps every turn of
\* the session's history, unchanged and at its position; the list creation of
\* chat() runs only for an id that is not in the store when it runs; and an id
\* in the store stays in the store.
C11_Original ==
    [][/\ \A s \in SessionIds :
            (Present(s) /\ ~(\E r \in Slots, c \in Clients : cookie[c] = s /\ ClearHistory(r, c))) =>
                C11_Extends(History(s)', History(s))
       /\ \A r \in Slots : ChatCreate(r) => ~Present(req[r].sid)
       /\ \A s \in SessionIds : Present(s) => Present(s)'
      ]_vars

-----------------------------------------------------------------------------
(* chatbot_engine.py: the content normalizer *)

\* Bounds on the contents handed to the normalizer.
MaxItems == 3
MaxDepth == 2

JoinPartsOneNewline(parts) ==
    LET RECURSIVE J(_)
        J(ps) == IF Len(ps) = 1 THEN ps[1] ELSE ps[1] \o <<"\n">> \o J(Tail(ps))
    IN J(parts)

\* chatbot_engine.py:186  "\n\n".join(parts), for a non-empty list of parts
JoinParts(parts) ==
    LET RECURSIVE J(_)
        J(ps) == IF Len(ps) = 1 THEN ps[1] ELSE ps[1] \o <<"\n", "\n">> \o J(Tail(ps))
    IN J(parts)

\* `return text if text else None`
TextOrNone(text) == IF text # <<>> THEN PyStr(text) ELSE PyNone

RECURSIVE ExtractTextContent(_)
RECURSIVE ExtractParts(_)

\* chatbot_engine.py:180-184  the parts the loop over a list collects
ExtractParts(blocks) ==
    IF blocks = <<>> THEN <<>>
    ELSE LET block_text == ExtractTextContent(Head(blocks))
         IN IF Truthy(block_text)
            THEN <<block_text.v>> \o ExtractParts(Tail(blocks))
            ELSE ExtractParts(Tail(blocks))

\* MedicalChatbot._extract_text_content: chatbot_engine.py:154-189.  The text
\* of a {"type": "text"} block is a str, as the message API delivers it.
ExtractTextContent(message_content) ==
    IF message_content.k = "none" THEN PyNone
    ELSE IF message_content.k = "str" THEN TextOrNone(Strip(message_content.v))
    ELSE IF message_content.k = "dict"
    THEN LET d == message_content.v
         IN IF Get(d, "type", PyNone) = PyStr(<<"text">>)
            THEN TextOrNone(Strip(Get(d, "text", PyStr(<<>>)).v))
            ELSE IF "content" \in DOMAIN d THEN ExtractTextContent(d["content"])
            ELSE IF "text" \in DOMAIN d THEN ExtractTextContent(d["text"])
            ELSE IF "value" \in DOMAIN d THEN ExtractTextContent(d["value"])
            ELSE PyNone
    ELSE IF message_content.k = "list"
    THEN LET parts == ExtractParts(message_content.v)
         IN IF parts # <<>> THEN PyStr(Strip(JoinParts(parts))) ELSE PyNone
    ELSE PyNone

MaxOf(S) == IF S = {} THEN 0 ELSE CHOOSE x \in S : \A y \in S : y <= x

\* The depth the calls of _extract_text_content reach on message_content
\* (chatbot_engine.py:176 and 182 are the recursive calls).
RECURSIVE ExtractDepth(_)
ExtractDepth(message_content) ==
    IF message_content.k = "dict"
    THEN LET d == message_content.v
         IN IF Get(d, "type", PyNone) = PyStr(<<"text">>) THEN 1
            ELSE IF "content" \in DOMAIN d THEN 1 + ExtractDepth(d["content"])
            ELSE IF "text" \in DOMAIN d THEN 1 + ExtractDepth(d["text"])
            ELSE IF "value" \in DOMAIN d THEN 1 + ExtractDepth(d["value"])
            ELSE 1
    ELSE IF message_content.k = "list"
    THEN 1 + MaxOf({ExtractDepth(message_content.v[i]) : i \in DOMAIN message_content.v})
    ELSE 1

\* The contents the normalizer is run on.
TextBlock(t) == PyDict([type |-> PyStr(<<"text">>), text |-> PyStr(t)])

Texts == {<<>>, <<" ">>, <<"a">>, <<" ", "b", "\n">>}

FlatContents ==
    {PyNone, PyOther} \cup {PyStr(t) : t \in Texts}
        \cup {TextBlock(<<" ", "c">>), TextBlock(<<" ">>),
              PyDict([type |-> PyStr(<<"text">>)]),
              PyDict([type |-> PyStr(<<"image">>), content |-> PyStr(<<"d">>),
                      text |-> PyStr(<<"e">>)]),
              PyDict([text |-> PyStr(<<"e", " ">>), value |-> PyStr(<<"f">>)]),
              PyDict([value |-> PyNone]),
              PyDict([type |-> PyStr(<<"tool_use">>), name |-> PyStr(<<"g">>)])}

ListElements ==
    {PyNone, PyOther, PyStr(<<" ">>), PyStr(<<"a">>), PyStr(<<" ", "b", "\n">>),
     TextBlock(<<" ", "c">>), PyDict([text |-> PyStr(<<"e", " ">>), value |-> PyStr(<<"f">>)]),
     PyDict([value |-> PyNone])}

FlatLists == UNION {{PyList(items) : items \in [1..n -> ListElements]} : n \in 0..MaxItems}

RECURSIVE Nested(_)
Nested(depth) ==
    IF depth = 0 THEN {PyNone, PyStr(<<"a", " ">>)}
    ELSE LET inner == Nested(depth - 1)
         IN inner \cup {PyList(<<x, y>>) : x \in inner, y \in inner}
                  \cup {PyDict([content |-> x]) : x \in inner}

NormInputs == FlatContents \cup FlatLists \cup Nested(MaxDepth)

NormInit == norm \in {[NormIdle EXCEPT !.pc = "call", !.content = c] : c \in NormInputs}

\* One call of the normalizer on the chosen content.
Normalize ==
    /\ norm.pc = "call"
    /\ norm' = [norm EXCEPT !.pc = "done",
                            !.result = ExtractTextContent(norm.content),
                            !.depth = ExtractDepth(norm.content)]
    /\ UNCHANGED <<appVars, asm, ret>>

InitNormalize == AppQuiet /\ NormInit /\ asm = AsmIdle /\ ret = RetIdle

NextNormalize == Normalize

SpecNormalize == InitNormalize /\ [][NextNormalize]_vars

-----------------------------------------------------------------------------
(* Content normalizer: properties *)

\* The nesting depth of a content: 1 for a scalar, one more than its deepest
\* element or value for a list or a dict.
RECURSIVE C8_Nesting(_)
C8_Nesting(c) ==
    IF c.k = "list" THEN 1 + MaxOf({C8_Nesting(c.v[i]) : i \in DOMAIN c.v})
    ELSE IF c.k = "dict" THEN 1 + MaxOf({C8_Nesting(c.v[key]) : key \in DOMAIN c.v})
    ELSE 1

\* a + "\n\n" + b + ...
RECURSIVE C8_Joined(_)
C8_Joined(texts) ==
    IF Len(texts) = 1 THEN texts[1].v
    ELSE texts[1].v \o <<"\n", "\n">> \o C8_Joined(Tail(texts))

\* C8: on a list, the normalizer returns the normalizations of the elements, in
\* order and without the absent ones, joined by "\n\n"; it returns None exactly
\* when no element yields text; and its calls nest no deeper than the content.
C8_ListNormalization ==
    (norm.pc = "done" /\ norm.content.k = "list") =>
        LET items == norm.content.v
            each == [i \in DOMAIN items |-> ExtractTextContent(items[i])]
            texts == SelectSeq(each, LAMBDA t : t # PyNone)
        IN /\ norm.result = IF texts = <<>> THEN PyNone ELSE PyStr(C8_Joined(texts))
           /\ norm.result # PyStr(<<>>)
           /\ norm.depth <= C8_Nesting(norm.content)

\* C8 witness: [a, absent, b] has been normalized to a + "\n\n" + b.
C8_Witness ==
    /\ norm.pc = "done"
    /\ norm.content = PyList(<<PyStr(<<"a">>), PyNone, PyStr(<<" ", "b", "\n">>)>>)
    /\ norm.result = PyStr(<<"a", "\n", "\n", "b">>)

-----------------------------------------------------------------------------
(* chatbot_engine.py: the response assembler, MedicalChatbot.get_response *)

\* The agent's stream yields at most this many events.
MaxEvents == 3

UpperCase == <<"A", "C", "H", "I", "L", "M", "T">>
LowerCase == <<"a", "c", "h", "i", "l", "m", "t">>

\* str.lower(), on the letters the class names of the model use
Lower(s) ==
    [i \in DOMAIN s |->
        IF \E j \in DOMAIN UpperCase : UpperCase[j] = s[i]
        THEN LowerCase[CHOOSE j \in DOMAIN UpperCase : UpperCase[j] = s[i]]
        ELSE s[i]]

\* `sub in s`
Contains(s, sub) ==
    \E i \in 0..(Len(s) - Len(sub)) : SubSeq(s, i + 1, i + Len(sub)) = sub

\* A message of an event: an object with attributes, or a dict with keys.
Object(cls, attributes) == [isdict |-> FALSE, cls |-> cls, f |-> attributes]
Dict(keys) == [isdict |-> TRUE, cls |-> <<"d", "i", "c", "t">>, f |-> keys]

\* hasattr(last_message, name): the dicts have neither a type nor a content attribute
HasAttr(m, name) == ~m.isdict /\ name \in DOMAIN m.f

\* chatbot_engine.py:217-222
MessageType(last_message) ==
    IF HasAttr(last_message, "type") THEN last_message.f["type"]
    ELSE IF last_message.isdict
    THEN LET type == Get(last_message.f, "type", PyNone)
         IN IF Truthy(type) THEN type ELSE Get(last_message.f, "role", PyNone)
    ELSE PyNone

\* chatbot_engine.py:224-229
RawContent(last_message) ==
    IF HasAttr(last_message, "content") THEN last_message.f["content"]
    ELSE IF last_message.isdict THEN Get(last_message.f, "content", PyNone)
    ELSE PyNone

IsAIMessageAnyType(last_message) == MessageType(last_message) # PyNone

\* chatbot_engine.py:233-239
IsAIMessage(last_message) ==
    \/ MessageType(last_message) \in {PyStr(<<"ai">>), PyStr(<<"assistant">>)}
    \/ Contains(Lower(last_message.cls), <<"a", "i", "m", "e", "s", "s", "a", "g", "e">>)

\* chatbot_engine.py:211  event.get("messages", [])
Messages(event) == Get(event, "messages", <<>>)

\* chatbot_engine.py:212-242: does the loop body record a candidate on this event?
Captures(event) ==
    /\ Messages(event) # <<>>
    /\ LET last_message == Messages(event)[Len(Messages(event))]
       IN IsAIMessage(last_message) /\ Truthy(ExtractTextContent(RawContent(last_message)))

ConsumeFirstWins(final_response, event) ==
    IF Captures(event) /\ final_response = PyNone
    THEN ExtractTextContent(RawContent(Messages(event)[Len(Messages(event))]))
    ELSE final_response

\* chatbot_engine.py:211-242: final_response after the loop body has run on event
Consume(final_response, event) ==
    IF Captures(event)
    THEN ExtractTextContent(RawContent(Messages(event)[Len(Messages(event))]))
    ELSE final_response

ReturnValueUnchecked(final_response) == final_response

\* chatbot_engine.py:248-253
ReturnValue(final_response) ==
    IF Truthy(final_response) THEN final_response
    ELSE PyStr(<<"I apologize, but I couldn't generate a response. Please try rephrasing your question or ask something else.">>)

ExceptResultOneHandler(raised) ==
    PyStr(<<"I apologize, but I encountered an error processing your request. Please try again or rephrase your question.">>)

\* chatbot_engine.py:255-260
ExceptResult(raised) ==
    IF raised = "TimeoutError"
    THEN PyStr(<<"The request timed out. Please try again with a shorter question.">>)
    ELSE PyStr(<<"I apologize, but I encountered an error processing your request. Please try again or rephrase your question.">>)

\* The messages and events the agent's stream is made of.
AIMessage(content) ==
    Object(<<"A", "I", "M", "e", "s", "s", "a", "g", "e">>,
           [type |-> PyStr(<<"ai">>), content |-> content])
AIMessageChunk(content) ==
    Object(<<"A", "I", "M", "e", "s", "s", "a", "g", "e", "C", "h", "u", "n", "k">>,
           [type |-> PyStr(<<"AIMessageChunk">>), content |-> content])
ToolMessage(content) ==
    Object(<<"T", "o", "o", "l", "M", "e", "s", "s", "a", "g", "e">>,
           [type |-> PyStr(<<"tool">>), content |-> content])
HumanMessage(content) ==
    Object(<<"H", "u", "m", "a", "n", "M", "e", "s", "s", "a", "g", "e">>,
           [type |-> PyStr(<<"human">>), content |-> content])
\* an object with no `type` attribute whose class is an AI-message variant
LegacyAIMessage(content) ==
    Object(<<"L", "e", "g", "a", "c", "y", "A", "I", "M", "e", "s", "s", "a", "g", "e">>,
           [content |-> content])
\* an object with neither attribute
Opaque == Object(<<"t", "u", "p", "l", "e">>, <<>>)

Question == HumanMessage(PyStr(<<"q">>))

LastMessages ==
    {AIMessage(PyNone), AIMessage(PyStr(<<" ", "x", " ">>)), AIMessage(PyStr(<<"y">>)),
     AIMessage(PyList(<<TextBlock(<<"z">>), PyNone, PyStr(<<"w">>)>>)),
     AIMessageChunk(PyStr(<<"c">>)),
     ToolMessage(PyStr(<<"t">>)),
     HumanMessage(PyStr(<<"h">>)),
     LegacyAIMessage(PyStr(<<"k">>)),
     Opaque,
     Dict([role |-> PyStr(<<"assistant">>), content |-> PyStr(<<"d">>)]),
     Dict([type |-> PyStr(<<>>), role |-> PyStr(<<"ai">>), content |-> PyStr(<<" ">>)]),
     Dict([type |-> PyStr(<<"tool">>), role |-> PyStr(<<"assistant">>),
           content |-> PyStr(<<"e">>)]),
     Dict([role |-> PyStr(<<"user">>), content |-> PyStr(<<"u">>)])}

Events ==
    {<<>>, [messages |-> <<>>]} \cup {[messages |-> <<Question, m>>] : m \in LastMessages}

UserMessages == {PyNone, PyStr(<<" ">>), PyStr(<<"q">>)}

AsmInit == asm \in {[AsmIdle EXCEPT !.pc = "call", !.user_message = u] : u \in UserMessages}

\* chatbot_engine.py:192-202: the guard on the question, then the stream starts
Enter ==
    /\ asm.pc = "call"
    /\ asm' = IF ~Truthy(asm.user_message) \/ Strip(asm.user_message.v) = <<>>
              THEN [asm EXCEPT !.pc = "done", !.ended = "rejected",
                               !.result = PyStr(<<"Please provide a valid question.">>)]
              ELSE [asm EXCEPT !.pc = "stream"]
    /\ UNCHANGED <<appVars, norm, ret>>

\* chatbot_engine.py:203-243: the stream yields an event and the loop body runs on it
StreamEvent(event) ==
    /\ asm.pc = "stream"
    /\ asm.event_count < MaxEvents
    /\ asm' = [asm EXCEPT !.stream = Append(@, event),
                          !.event_count = @ + 1,
                          !.final_response = Consume(@, event),
                          !.captured = IF Captures(event) THEN asm.event_count + 1 ELSE @]
    /\ UNCHANGED <<appVars, norm, ret>>

\* chatbot_engine.py:245-253: the stream is exhausted
StreamEnd ==
    /\ asm.pc = "stream"
    /\ asm' = [asm EXCEPT !.pc = "done", !.ended = "exhausted",
                          !.result = ReturnValue(asm.final_response)]
    /\ UNCHANGED <<appVars, norm, ret>>

\* chatbot_engine.py:255-260: the stream raises, a TimeoutError or another Exception
StreamRaise(raised) ==
    /\ asm.pc = "stream"
    /\ asm' = [asm EXCEPT !.pc = "done", !.ended = raised, !.result = ExceptResult(raised)]
    /\ UNCHANGED <<appVars, norm, ret>>

InitAssemble == AppQuiet /\ AsmInit /\ norm = NormIdle /\ ret = RetIdle

NextAssemble ==
    \/ Enter
    \/ \E event \in Events : StreamEvent(event)
    \/ StreamEnd
    \/ \E raised \in {"TimeoutError", "Exception"} : StreamRaise(raised)

SpecAssemble == InitAssemble /\ [][NextAssemble]_vars

-----------------------------------------------------------------------------
(* Response assembler: properties *)

\* The most recent message of an event that has messages.
LastOf(event) == Messages(event)[Len(Messages(event))]

\* The normalized text of the most recent message of an event.
TextOf(event) == ExtractTextContent(RawContent(LastOf(event)))

\* A qualifying event: its most recent message is assistant-authored and its
\* text is not absent.
Qualifies(event) ==
    /\ Messages(event) # <<>>
    /\ IsAIMessage(LastOf(event))
    /\ TextOf(event) # PyNone

Qualifying(stream) == {i \in DOMAIN stream : Qualifies(stream[i])}

FallbackApology ==
    PyStr(<<"I apologize, but I couldn't generate a response. Please try rephrasing your question or ask something else.">>)

\* C1: every event the stream produced has been consumed, in order; while the
\* stream runs the candidate is the text of the last qualifying event so far
\* (later events that do not qualify never erase it), and when the stream ends
\* without raising that text is what get_response returns.
C1_LastQualifyingWins ==
    LET q == Qualifying(asm.stream)
    IN /\ asm.event_count = Len(asm.stream)
       /\ asm.pc \in {"stream", "done"} =>
              asm.final_response =
                  IF q = {} THEN PyNone ELSE TextOf(asm.stream[MaxOf(q)])
       /\ (asm.pc = "done" /\ asm.ended = "exhausted" /\ q # {}) =>
              asm.result = TextOf(asm.stream[MaxOf(q)])

\* C1 witness: two qualifying events with different texts, then one that does
\* not qualify; the stream has ended and the second text was returned.
C1_Witness ==
    /\ asm.pc = "done" /\ asm.ended = "exhausted"
    /\ Len(asm.stream) = 3
    /\ Qualifying(asm.stream) = {1, 2}
    /\ TextOf(asm.stream[1]) # TextOf(asm.stream[2])
    /\ asm.result = TextOf(asm.stream[2])

\* C2: get_response always returns a string: the fixed timeout message when the
\* stream raised a TimeoutError, the fixed generic apology when it raised any
\* other exception, at whatever point of the stream, and never the candidate
\* recorded before the failure.
C2_FailureMessages ==
    asm.pc = "done" =>
        /\ asm.result.k = "str"
        /\ asm.ended = "TimeoutError" =>
               asm.result =
                   PyStr(<<"The request timed out. Please try again with a shorter question.">>)
        /\ asm.ended = "Exception" =>
               asm.result =
                   PyStr(<<"I apologize, but I encountered an error processing your request. Please try again or rephrase your question.">>)
        /\ asm.ended \in {"TimeoutError", "Exception"} => asm.result # asm.final_response

\* C2 witness: the stream timed out after a candidate had been recorded.
C2_Witness ==
    /\ asm.pc = "done" /\ asm.ended = "TimeoutError"
    /\ asm.final_response # PyNone
    /\ asm.event_count >= 2

\* C3: when the stream ends without raising and no event qualified,
\* get_response returns the fallback apology: not an empty string, not None.
C3_FallbackWhenNoCandidate ==
    (asm.pc = "done" /\ asm.ended = "exhausted" /\ Qualifying(asm.stream) = {}) =>
        /\ asm.result = FallbackApology
        /\ asm.result # PyStr(<<>>)
        /\ asm.result # PyNone

\* C3 witness: a stream of an event without messages and an assistant message
\* without text has ended, and the empty stream has too.
C3_Witness ==
    /\ asm.pc = "done" /\ asm.ended = "exhausted"
    /\ asm.stream = <<[messages |-> <<>>], [messages |-> <<Question, AIMessage(PyNone)>>]>>
    /\ asm.result = FallbackApology

\* A message carries a role/type discriminator.
C4_HasDiscriminator(m) == MessageType(m) # PyNone

C4_TypeIsAssistant(m) == MessageType(m) \in {PyStr(<<"ai">>), PyStr(<<"assistant">>)}

\* C4 as stated: a message whose discriminator is present and is not
\* ai/assistant is never recorded as the candidate.
C4_Original ==
    asm.captured # 0 =>
        LET m == LastOf(asm.stream[asm.captured])
        IN ~(C4_HasDiscriminator(m) /\ ~C4_TypeIsAssistant(m))

\* C4, amended: a message is recorded as the candidate only if its discriminator
\* is ai/assistant or the name of its class contains "aimessage" in any case;
\* the class-name test applies whenever the discriminator is not ai/assistant,
\* present or absent.  The string returned when the stream did not fail is the
\* fallback apology or the text of a message so classified.
C4_OnlyAssistantRecorded ==
    /\ asm.captured # 0 =>
           LET m == LastOf(asm.stream[asm.captured])
           IN \/ C4_TypeIsAssistant(m)
              \/ \E i \in 1..Len(m.cls) : \E j \in i..Len(m.cls) :
                     Lower(SubSeq(m.cls, i, j)) = <<"a", "i", "m", "e", "s", "s", "a", "g", "e">>
    /\ (asm.pc = "done" /\ asm.ended = "exhausted") =>
           \/ asm.result = FallbackApology
           \/ \E i \in DOMAIN asm.stream :
                  /\ Messages(asm.stream[i]) # <<>>
                  /\ LET m == LastOf(asm.stream[i])
                     IN \/ C4_TypeIsAssistant(m)
                        \/ \E k \in 1..Len(m.cls) : \E j \in k..Len(m.cls) :
                               Lower(SubSeq(m.cls, k, j)) =
                                   <<"a", "i", "m", "e", "s", "s", "a", "g", "e">>
                  /\ asm.result = TextOf(asm.stream[i])

\* C4 witness: the candidate was recorded from a message whose discriminator is
\* present and is not ai/assistant (an AIMessageChunk), and it was returned.
C4_Witness ==
    /\ asm.pc = "done" /\ asm.ended = "exhausted"
    /\ asm.captured # 0
    /\ LET m == LastOf(asm.stream[asm.captured])
       IN C4_HasDiscriminator(m) /\ ~C4_TypeIsAssistant(m)
    /\ asm.result = TextOf(asm.stream[asm.captured])

-----------------------------------------------------------------------------
(* chatbot_engine.py: the retrieval tool, retrieve_medical_context.  Its       *)
(* strings are TLA+ strings, concatenated as the code concatenates them.       *)

\* chatbot_engine.py:94  similarity_search(query, k=3)
TopK == 3

Doc(metadata, page_content) == [metadata |-> metadata, page_content |-> page_content]

\* chatbot_engine.py:101
FormatDoc(doc) ==
    "Source: " \o Get(doc.metadata, "source", "Unknown")
        \o "\nContent: " \o doc.page_content

\* chatbot_engine.py:100-103  "\n\n".join(...) over the retrieved documents
RECURSIVE Serialize(_)
Serialize(docs) ==
    IF Len(docs) = 1 THEN FormatDoc(docs[1])
    ELSE FormatDoc(docs[1]) \o "\n\n" \o Serialize(Tail(docs))

NoDocumentsTextReused == "Knowledge base is not available."

\* chatbot_engine.py:98
NoDocumentsText == "No relevant medical information found in the knowledge base."

\* retrieve_medical_context: chatbot_engine.py:84-108, for a vector store handle
\* that is truthy or not and for what similarity_search does when it is called
RetrieveMedicalContext(vectorstore, search) ==
    IF ~vectorstore
    THEN [content |-> "Knowledge base is not available.", artifact |-> <<>>]
    ELSE IF search.raises
    THEN [content |-> "Error accessing knowledge base: " \o search.message,
          artifact |-> <<>>]
    ELSE IF search.docs = <<>>
    THEN [content |-> NoDocumentsText, artifact |-> <<>>]
    ELSE [content |-> Serialize(search.docs), artifact |-> search.docs]

\* The documents of the vector store and the outcomes of a similarity search.
Documents ==
    {Doc([source |-> "a.pdf"], "x"), Doc(<<>>, "y"), Doc([source |-> "Unknown"], "y"),
     Doc([source |-> ""], ""),
     Doc([source |-> "b"], "No relevant medical information found in the knowledge base.")}

SearchOutcomes ==
    UNION {{[raises |-> FALSE, message |-> "", docs |-> docs] :
                docs \in [1..n -> Documents]} : n \in 0..TopK}
        \cup {[raises |-> TRUE, message |-> m, docs |-> <<>>] :
                 m \in {"", "timed out", "Knowledge base is not available."}}

RetInit ==
    ret \in {[RetIdle EXCEPT !.pc = "call", !.vectorstore = v, !.search = o] :
                v \in BOOLEAN, o \in SearchOutcomes}

\* One call of the tool.
Retrieve ==
    /\ ret.pc = "call"
    /\ ret' = [ret EXCEPT !.pc = "done",
                          !.result = RetrieveMedicalContext(ret.vectorstore, ret.search)]
    /\ UNCHANGED <<appVars, norm, asm>>

InitRetrieve == AppQuiet /\ RetInit /\ norm = NormIdle /\ asm = AsmIdle

NextRetrieve == Retrieve

SpecRetrieve == InitRetrieve /\ [][NextRetrieve]_vars

-----------------------------------------------------------------------------
(* Retrieval tool: properties *)

\* The four cases of a call.
C9_Case(vectorstore, search) ==
    IF ~vectorstore THEN "unavailable"
    ELSE IF search.raises THEN "failure"
    ELSE IF search.docs = <<>> THEN "empty"
    ELSE "passages"

\* C9: the tool always returns a pair; the passage sequence is non-empty exactly
\* when the search succeeded with at least one passage (and is then what the
\* search returned); the unavailable and the empty case return their fixed
\* strings; and no call of another case returns the string this call returned.
C9_OutcomeClassification ==
    ret.pc = "done" =>
        LET case == C9_Case(ret.vectorstore, ret.search)
        IN /\ ret.result.artifact # <<>> <=> case = "passages"
           /\ case = "passages" => ret.result.artifact = ret.search.docs
           /\ case = "unavailable" =>
                  ret.result.content = "Knowledge base is not available."
           /\ case = "empty" =>
                  ret.result.content =
                      "No relevant medical information found in the knowledge base."
           /\ \A v \in BOOLEAN, o \in SearchOutcomes :
                  C9_Case(v, o) # case =>
                      RetrieveMedicalContext(v, o).content # ret.result.content

\* C9 witness: a search that raised was turned into an error string and no passages.
C9_Witness ==
    /\ ret.pc = "done"
    /\ ret.vectorstore /\ ret.search.raises
    /\ ret.search.message = "Knowledge base is not available."
    /\ ret.result.artifact = <<>>
    /\ ret.result.content = "Error accessing knowledge base: Knowledge base is not available."

====
